---- MODULE Spec2Model ----
(***************************************************************************)
(* Model of internal/alertmanager/upstream.go: the process-wide registry   *)
(* of Alertmanager upstreams (upstreams, RegisterAlertmanager,             *)
(* GetAlertmanagers, GetAlertmanagerByName) and the construction of one    *)
(* upstream with functional options (NewAlertmanager, WithProxy,           *)
(* WithRequestTimeout, WithHTTPTransport).                                 *)
(*                                                                         *)
(* The specifications share the variables:                                 *)
(*   Spec     - registry calls made one after another (whole calls)        *)
(*   SpecRead - Spec, plus a reader writing through the returned values    *)
(*   SpecConc - goroutines running registry calls statement by statement   *)
(*   SpecNew  - one NewAlertmanager call, one loop iteration per step      *)
(*   SpecUI   - the change handlers of the silence matcher form            *)
(*   SpecSync - the refresh cycle of one upstream's snapshot               *)
(***************************************************************************)
EXTENDS Integers, Sequences, FiniteSets, TLC

\* ---------------------------------------------------------------- bounds
\* number of *Alertmanager values the callers hold
MaxAms == 3
\* number of goroutines in SpecConc
MaxProcs == 2
\* longest option list passed to NewAlertmanager in SpecNew
MaxOpts == 3
\* most values a silence matcher holds in SpecUI
MaxValues == 2
\* cap of each fetch-error counter in SpecSync
MaxErrors == 2

\* ------------------------------------------------------------ value sets
\* the nil pointer; *Alertmanager values are 1..MaxAms
NIL == 0
Ptrs == 1..MaxAms
Procs == 1..MaxProcs

NameSeq == <<"primary", "secondary", "tertiary">>
URISeq == <<"http://a.example/api", "http://b.example/api">>
Names == {NameSeq[i] : i \in 1..Len(NameSeq)}
URIs == {URISeq[i] : i \in 1..Len(URISeq)}

\* the fields of Alertmanager the registry reads (Name, URI, ProxyRequests)
Descriptors == [Name : Names, URI : URIs, ProxyRequests : BOOLEAN]

\* Pointer values are interchangeable: the descriptors the callers hold are
\* listed in non-decreasing order of (Name, URI, ProxyRequests).
IndexIn(seq, x) == CHOOSE i \in 1..Len(seq) : seq[i] = x
Rank(d) ==
    (IndexIn(NameSeq, d.Name) * Len(URISeq) + IndexIn(URISeq, d.URI)) * 2
        + (IF d.ProxyRequests THEN 1 ELSE 0)
Heaps ==
    {h \in [Ptrs -> Descriptors] : \A p \in Ptrs \ {MaxAms} : Rank(h[p]) <= Rank(h[p + 1])}

VARIABLES
    \* registry
    heap,        \* Ptrs -> the struct each *Alertmanager points at
    upstreams,   \* the map[string]*Alertmanager: a function on the present keys
    logged,      \* the log.Infof lines written by RegisterAlertmanager
    registered,  \* history: the pointers whose registration returned nil, in order
    call,        \* Spec: the last completed call, its result and the map before it
    \* goroutines (SpecConc)
    pc, local, fatal,
    \* NewAlertmanager (SpecNew)
    npc, nargs, am, idx, applied, bound, nret,
    \* the silence matcher form (SpecUI)
    matcher, uiEvent,
    \* the snapshot of one upstream (SpecSync)
    snap, cyc

regVars == <<heap, upstreams, logged, registered>>
concVars == <<pc, local, fatal>>
newVars == <<npc, nargs, am, idx, applied, bound, nret>>
uiVars == <<matcher, uiEvent>>
syncVars == <<snap, cyc>>
vars == <<heap, upstreams, logged, registered, call, pc, local, fatal,
          npc, nargs, am, idx, applied, bound, nret, matcher, uiEvent, snap, cyc>>

\* ------------------------------------------------------------- errors
\* error values: nil, or the fmt.Errorf message with its arguments
NoErr == [msg |-> "nil", name |-> "", uri |-> ""]
\* fmt.Errorf("Alertmanager upstream '%s' already exist", am.Name)
ErrAlreadyExist(name) == [msg |-> "already exist", name |-> name, uri |-> ""]
\* variant: the message does not carry the existing entry's name
ErrAlreadyCollects_NoName(name, uri) == [msg |-> "already collects from", name |-> "", uri |-> uri]

\* fmt.Errorf("Alertmanager upstream '%s' already collects from '%s'", existingAM.Name, existingAM.URI)
ErrAlreadyCollects(name, uri) == [msg |-> "already collects from", name |-> name, uri |-> uri]

\* ------------------------------------------------------- map primitives
\* variant: the name check never finds the name
Found_Never(m, name) == FALSE

\* _, found := upstreams[name]
Found(m, name) == name \in DOMAIN m

\* variant: the range loop compares nothing and never stops
SameURI_NoScan(m, h, a) == {}

\* the entries the range loop of RegisterAlertmanager stops at:
\* existingAM.URI == am.URI
SameURI(m, h, a) == {k \in DOMAIN m : h[m[k]].URI = h[a].URI}

\* variant: the map is rebuilt with the new entry alone
MapAssign_Fresh(m, name, a) == [k \in {name} |-> a]

\* upstreams[am.Name] = am
MapAssign(m, name, a) ==
    [k \in (DOMAIN m) \cup {name} |-> IF k = name THEN a ELSE m[k]]

\* variant: the found test is inverted, so the zero value is returned
MapLookup_Inverted(m, name) == IF name \notin DOMAIN m THEN NIL ELSE NIL

\* am, found := upstreams[name]; nil when not found
MapLookup(m, name) == IF name \in DOMAIN m THEN m[name] ELSE NIL

\* the orders in which a range loop may visit the keys in S
Orders(S) ==
    {s \in [1..Cardinality(S) -> S] : \A i, j \in 1..Cardinality(S) : i # j => s[i] # s[j]}

\* variant: the line is formatted without the proxy flag of the descriptor
LogLine_NoProxy(d) == [name |-> d.Name, uri |-> d.URI, proxied |-> FALSE]

\* log.Infof("[%s] Configured Alertmanager source at %s (proxied: %v)", ...)
LogLine(d) == [name |-> d.Name, uri |-> d.URI, proxied |-> d.ProxyRequests]

EmptyMap == [k \in {} |-> NIL]
NoCall == [op |-> "none", am |-> NIL, name |-> "", err |-> NoErr,
           out |-> NIL, ams |-> <<>>, pre |-> EmptyMap]

\* the locals of a goroutine running one registry call
NoLocals == [op |-> "none", am |-> NIL, name |-> "", err |-> NoErr, out |-> NIL,
             ams |-> <<>>, begin |-> {}, visited |-> {}, raced |-> FALSE]

\* ---------------------------------------------------- Spec: whole calls
\* variant: the URI scan runs before the name check
RegisterAlertmanager_URIFirst(a) ==
    /\ IF SameURI(upstreams, heap, a) # {}
       THEN /\ \E k \in SameURI(upstreams, heap, a) :
                 call' = [NoCall EXCEPT !.op = "Register", !.am = a, !.pre = upstreams,
                            !.err = ErrAlreadyCollects(heap[upstreams[k]].Name,
                                                       heap[upstreams[k]].URI)]
            /\ UNCHANGED <<upstreams, logged, registered>>
       ELSE IF Found(upstreams, heap[a].Name)
       THEN /\ call' = [NoCall EXCEPT !.op = "Register", !.am = a, !.pre = upstreams,
                                      !.err = ErrAlreadyExist(heap[a].Name)]
            /\ UNCHANGED <<upstreams, logged, registered>>
       ELSE /\ upstreams' = MapAssign(upstreams, heap[a].Name, a)
            /\ logged' = Append(logged, LogLine(heap[a]))
            /\ registered' = Append(registered, a)
            /\ call' = [NoCall EXCEPT !.op = "Register", !.am = a, !.pre = upstreams]
    /\ UNCHANGED heap

\* func RegisterAlertmanager(am *Alertmanager) error
RegisterAlertmanager(a) ==
    /\ IF Found(upstreams, heap[a].Name)
       THEN /\ call' = [NoCall EXCEPT !.op = "Register", !.am = a, !.pre = upstreams,
                                      !.err = ErrAlreadyExist(heap[a].Name)]
            /\ UNCHANGED <<upstreams, logged, registered>>
       ELSE IF SameURI(upstreams, heap, a) # {}
       THEN /\ \E k \in SameURI(upstreams, heap, a) :
                 call' = [NoCall EXCEPT !.op = "Register", !.am = a, !.pre = upstreams,
                            !.err = ErrAlreadyCollects(heap[upstreams[k]].Name,
                                                       heap[upstreams[k]].URI)]
            /\ UNCHANGED <<upstreams, logged, registered>>
       ELSE /\ upstreams' = MapAssign(upstreams, heap[a].Name, a)
            /\ logged' = Append(logged, LogLine(heap[a]))
            /\ registered' = Append(registered, a)
            /\ call' = [NoCall EXCEPT !.op = "Register", !.am = a, !.pre = upstreams]
    /\ UNCHANGED heap

\* variant: ams := make([]*Alertmanager, len(upstreams)) before the appends
GetAlertmanagers_Prefilled ==
    /\ \E o \in Orders(DOMAIN upstreams) :
          call' = [NoCall EXCEPT !.op = "GetAlertmanagers", !.pre = upstreams,
                                 !.ams = [i \in 1..Len(o) |-> NIL] \o
                                         [i \in 1..Len(o) |-> upstreams[o[i]]]]
    /\ UNCHANGED regVars

\* func GetAlertmanagers() []*Alertmanager
GetAlertmanagers ==
    /\ \E o \in Orders(DOMAIN upstreams) :
          call' = [NoCall EXCEPT !.op = "GetAlertmanagers", !.pre = upstreams,
                                 !.ams = [i \in 1..Len(o) |-> upstreams[o[i]]]]
    /\ UNCHANGED regVars

\* func GetAlertmanagerByName(name string) *Alertmanager
GetAlertmanagerByName(name) ==
    /\ call' = [NoCall EXCEPT !.op = "GetAlertmanagerByName", !.name = name,
                              !.pre = upstreams, !.out = MapLookup(upstreams, name)]
    /\ UNCHANGED regVars

\* variables of the other specifications, at rest
ConcIdle ==
    /\ pc = [p \in Procs |-> "off"]
    /\ local = [p \in Procs |-> NoLocals]
    /\ fatal = FALSE
UiIdle ==
    /\ matcher = <<>>
    /\ uiEvent = <<>>
SyncIdle ==
    /\ snap = <<>>
    /\ cyc = <<>>
NewIdle ==
    /\ npc = "off"
    /\ nargs = <<>>
    /\ am = NIL
    /\ idx = 0
    /\ applied = <<>>
    /\ bound = <<>>
    /\ nret = <<>>

\* var upstreams = map[string]*Alertmanager{}
InitRegistry ==
    /\ heap \in Heaps
    /\ upstreams = EmptyMap
    /\ logged = <<>>
    /\ registered = <<>>

Init ==
    /\ InitRegistry
    /\ call = NoCall
    /\ ConcIdle
    /\ NewIdle
    /\ UiIdle
    /\ SyncIdle

Next ==
    \/ \E a \in Ptrs : RegisterAlertmanager(a) /\ UNCHANGED <<concVars, newVars, uiVars, syncVars>>
    \/ GetAlertmanagers /\ UNCHANGED <<concVars, newVars, uiVars, syncVars>>
    \/ \E name \in Names : GetAlertmanagerByName(name) /\ UNCHANGED <<concVars, newVars, uiVars, syncVars>>

Spec == Init /\ [][Next]_vars

\* --------------------------- SpecRead: a reader using the returned values
\* GetAlertmanagers returns a new slice of the *Alertmanager values stored in
\* the map, and GetAlertmanagerByName returns the stored *Alertmanager itself;
\* Name and URI are exported fields, so the holder of a pointer can assign them.
Returned ==
    ({call.out} \cup {call.ams[i] : i \in 1..Len(call.ams)}) \ {NIL}

\* am.Name = name, on a pointer a lookup returned
ReaderSetName(p, name) ==
    /\ p \in Returned
    /\ heap' = [heap EXCEPT ![p].Name = name]
    /\ call' = [NoCall EXCEPT !.op = "ReaderSetName", !.am = p, !.pre = upstreams]
    /\ UNCHANGED <<upstreams, logged, registered>>

\* am.URI = uri, on a pointer a lookup returned
ReaderSetURI(p, uri) ==
    /\ p \in Returned
    /\ heap' = [heap EXCEPT ![p].URI = uri]
    /\ call' = [NoCall EXCEPT !.op = "ReaderSetURI", !.am = p, !.pre = upstreams]
    /\ UNCHANGED <<upstreams, logged, registered>>

\* ams[i] = nil, on the slice GetAlertmanagers returned
ReaderSetElement(i) ==
    /\ call.op = "GetAlertmanagers"
    /\ i \in 1..Len(call.ams)
    /\ call.ams[i] # NIL
    /\ call' = [call EXCEPT !.ams[i] = NIL]
    /\ UNCHANGED regVars

\* registration belongs to start-up: it is over once a reader has written
StartingUp ==
    \A i \in 1..Len(registered) :
        heap[registered[i]].Name = logged[i].name /\ heap[registered[i]].URI = logged[i].uri

NextRead ==
    \/ \E a \in Ptrs : StartingUp /\ RegisterAlertmanager(a) /\ UNCHANGED <<concVars, newVars, uiVars, syncVars>>
    \/ GetAlertmanagers /\ UNCHANGED <<concVars, newVars, uiVars, syncVars>>
    \/ \E name \in Names : GetAlertmanagerByName(name) /\ UNCHANGED <<concVars, newVars, uiVars, syncVars>>
    \/ \E q \in Ptrs, name \in Names : ReaderSetName(q, name) /\ UNCHANGED <<concVars, newVars, uiVars, syncVars>>
    \/ \E q \in Ptrs, uri \in URIs : ReaderSetURI(q, uri) /\ UNCHANGED <<concVars, newVars, uiVars, syncVars>>
    \/ \E i \in 1..MaxAms : ReaderSetElement(i) /\ UNCHANGED <<concVars, newVars, uiVars, syncVars>>

SpecRead == Init /\ [][NextRead]_vars

\* ------------------------------------- SpecConc: goroutines, no lock held
\* upstreams is a plain map and no function of the file takes a lock, so the
\* statements of concurrent calls interleave.  runtime.mapassign is not atomic:
\* the write is in progress from RegAssignBegin to RegAssignEnd.  A map access
\* that overlaps it is a data race: the runtime may throw ("concurrent map read
\* and map write", "concurrent map writes"), or the access sees the map without
\* or with the entry being written.
Assigning(p) == {q \in Procs \ {p} : pc[q] = "assigning"}
Racing(p) == Assigning(p) # {}
Views(p) ==
    {upstreams} \cup
    {MapAssign(upstreams, heap[local[q].am].Name, local[q].am) : q \in Assigning(p)}

\* line 60 of a call RegisterAlertmanager(a)
RegCheck(p, a) ==
    /\ ~fatal /\ pc[p] = "idle"
    /\ \E V \in Views(p) :
         IF Found(V, heap[a].Name)
         THEN /\ pc' = [pc EXCEPT ![p] = "done"]
              /\ local' = [local EXCEPT ![p] = [NoLocals EXCEPT !.op = "Register", !.am = a,
                               !.err = ErrAlreadyExist(heap[a].Name), !.raced = Racing(p)]]
         ELSE /\ pc' = [pc EXCEPT ![p] = "scan"]
              /\ local' = [local EXCEPT ![p] = [NoLocals EXCEPT !.op = "Register", !.am = a,
                               !.raced = Racing(p)]]
    /\ UNCHANGED <<regVars, fatal>>

\* lines 64-68
RegScan(p) ==
    /\ ~fatal /\ pc[p] = "scan"
    /\ \E V \in Views(p) :
         IF SameURI(V, heap, local[p].am) # {}
         THEN /\ pc' = [pc EXCEPT ![p] = "done"]
              /\ \E k \in SameURI(V, heap, local[p].am) :
                   local' = [local EXCEPT ![p].err = ErrAlreadyCollects(heap[V[k]].Name, heap[V[k]].URI),
                                          ![p].raced = @ \/ Racing(p)]
         ELSE /\ pc' = [pc EXCEPT ![p] = "assign"]
              /\ local' = [local EXCEPT ![p].raced = @ \/ Racing(p)]
    /\ UNCHANGED <<regVars, fatal>>

\* line 69, the write begins
RegAssignBegin(p) ==
    /\ ~fatal /\ pc[p] = "assign"
    /\ pc' = [pc EXCEPT ![p] = "assigning"]
    /\ local' = [local EXCEPT ![p].raced = @ \/ Racing(p)]
    /\ UNCHANGED <<regVars, fatal>>

\* line 69, the write is done
RegAssignEnd(p) ==
    /\ ~fatal /\ pc[p] = "assigning"
    /\ upstreams' = MapAssign(upstreams, heap[local[p].am].Name, local[p].am)
    /\ pc' = [pc EXCEPT ![p] = "log"]
    /\ UNCHANGED <<heap, logged, registered, local, fatal>>

\* lines 70-71
RegReturn(p) ==
    /\ ~fatal /\ pc[p] = "log"
    /\ logged' = Append(logged, LogLine(heap[local[p].am]))
    /\ registered' = Append(registered, local[p].am)
    /\ pc' = [pc EXCEPT ![p] = "done"]
    /\ UNCHANGED <<heap, upstreams, local, fatal>>

\* lines 86-90 of a call GetAlertmanagerByName(name)
ByName(p, name) ==
    /\ ~fatal /\ pc[p] = "idle"
    /\ \E V \in Views(p) :
         local' = [local EXCEPT ![p] = [NoLocals EXCEPT !.op = "GetAlertmanagerByName",
                       !.name = name, !.out = MapLookup(V, name), !.raced = Racing(p)]]
    /\ pc' = [pc EXCEPT ![p] = "done"]
    /\ UNCHANGED <<regVars, fatal>>

\* lines 76-77 of a call GetAlertmanagers(): the range loop starts
RangeBegin(p) ==
    /\ ~fatal /\ pc[p] = "idle"
    /\ \E V \in Views(p) :
         local' = [local EXCEPT ![p] = [NoLocals EXCEPT !.op = "GetAlertmanagers",
                       !.begin = DOMAIN V, !.raced = Racing(p)]]
    /\ pc' = [pc EXCEPT ![p] = "range"]
    /\ UNCHANGED <<regVars, fatal>>

\* lines 77-79: one iteration; an entry added after the loop started may be
\* produced or skipped
RangeNext(p) ==
    /\ ~fatal /\ pc[p] = "range"
    /\ \E V \in Views(p) : \E k \in (DOMAIN V) \ local[p].visited :
         local' = [local EXCEPT ![p].ams = Append(@, V[k]),
                                ![p].visited = @ \cup {k},
                                ![p].raced = @ \/ Racing(p)]
    /\ UNCHANGED <<regVars, pc, fatal>>

\* line 80
RangeReturn(p) ==
    /\ ~fatal /\ pc[p] = "range"
    /\ local[p].begin \subseteq local[p].visited
    /\ pc' = [pc EXCEPT ![p] = "done"]
    /\ UNCHANGED <<regVars, local, fatal>>

\* the runtime detects a map access overlapping a write and ends the process
RuntimeThrow(p) ==
    /\ ~fatal
    /\ pc[p] \in {"idle", "scan", "assign", "range"}
    /\ Racing(p)
    /\ fatal' = TRUE
    /\ UNCHANGED <<regVars, pc, local>>

\* the single-threaded start-up has registered nothing, or the first descriptor
InitConc ==
    /\ heap \in Heaps
    /\ \/ /\ upstreams = EmptyMap
          /\ logged = <<>>
          /\ registered = <<>>
       \/ /\ upstreams = MapAssign(EmptyMap, heap[1].Name, 1)
          /\ logged = <<LogLine(heap[1])>>
          /\ registered = <<1>>
    /\ call = NoCall
    /\ pc = [p \in Procs |-> "idle"]
    /\ local = [p \in Procs |-> NoLocals]
    /\ fatal = FALSE
    /\ NewIdle
    /\ UiIdle
    /\ SyncIdle

NextConc ==
    \/ \E p \in Procs, a \in Ptrs : RegCheck(p, a) /\ UNCHANGED <<call, newVars, uiVars, syncVars>>
    \/ \E p \in Procs : RegScan(p) /\ UNCHANGED <<call, newVars, uiVars, syncVars>>
    \/ \E p \in Procs : RegAssignBegin(p) /\ UNCHANGED <<call, newVars, uiVars, syncVars>>
    \/ \E p \in Procs : RegAssignEnd(p) /\ UNCHANGED <<call, newVars, uiVars, syncVars>>
    \/ \E p \in Procs : RegReturn(p) /\ UNCHANGED <<call, newVars, uiVars, syncVars>>
    \/ \E p \in Procs, name \in Names : ByName(p, name) /\ UNCHANGED <<call, newVars, uiVars, syncVars>>
    \/ \E p \in Procs : RangeBegin(p) /\ UNCHANGED <<call, newVars, uiVars, syncVars>>
    \/ \E p \in Procs : RangeNext(p) /\ UNCHANGED <<call, newVars, uiVars, syncVars>>
    \/ \E p \in Procs : RangeReturn(p) /\ UNCHANGED <<call, newVars, uiVars, syncVars>>
    \/ \E p \in Procs : RuntimeThrow(p) /\ UNCHANGED <<call, newVars, uiVars, syncVars>>

SpecConc == InitConc /\ [][NextConc]_vars

\* ------------------------------------------------ SpecNew: NewAlertmanager
\* time.Second * 10, in seconds
DefaultTimeout == 10
\* the durations a caller passes to WithRequestTimeout, in seconds
Timeouts == {-1, 0, 30}
\* a pointer result of NewAlertmanager or NewTransport: <<>> is nil, <<s>> points at s
NilPtr == <<>>
PtrTo(s) == <<s>>
\* http.RoundTripper values; the zero value of the httpTransport field is nil
NoTransport == "nil"
RoundTrippers == {"rt1", "rt2"}
\* a URI transport.NewTransport cannot bind
MalformedURI == "%zz"
\* the errors returned by Option values written by the caller
OptionErrors ==
    {[msg |-> "option failed", name |-> "e1", uri |-> ""],
     [msg |-> "option failed", name |-> "e2", uri |-> ""]}
ErrTransport == [msg |-> "transport", name |-> "", uri |-> MalformedURI]

\* Option values: the three constructors of the package, and any other
\* func(am *Alertmanager) error a caller writes (here: one that returns an error)
Option(kind, proxied, timeout, rt, err) ==
    [kind |-> kind, proxied |-> proxied, timeout |-> timeout, rt |-> rt, err |-> err]
OptionValues ==
    {Option("WithProxy", b, 0, NoTransport, NoErr) : b \in BOOLEAN}
    \cup {Option("WithRequestTimeout", FALSE, t, NoTransport, NoErr) : t \in Timeouts}
    \cup {Option("WithHTTPTransport", FALSE, 0, rt, NoErr) : rt \in RoundTrippers}
    \cup {Option("custom", FALSE, 0, NoTransport, e) : e \in OptionErrors}
OptionLists == UNION {[1..n -> OptionValues] : n \in 0..MaxOpts}

\* variant: the errors map is created without the silences label
NewStruct_NoSilenceCounter(name, uri) ==
    [URI |-> uri, RequestTimeout |-> DefaultTimeout, Name |-> name,
     ProxyRequests |-> FALSE, httpTransport |-> NoTransport, transport |-> NilPtr,
     alertGroups |-> <<>>, silences |-> <<>>, colors |-> <<>>, autocomplete |-> <<>>,
     metrics |-> [errors |-> [alerts |-> 0]]]

\* am := &Alertmanager{...}
NewStruct(name, uri) ==
    [URI |-> uri, RequestTimeout |-> DefaultTimeout, Name |-> name,
     ProxyRequests |-> FALSE, httpTransport |-> NoTransport, transport |-> NilPtr,
     alertGroups |-> <<>>, silences |-> <<>>, colors |-> <<>>, autocomplete |-> <<>>,
     metrics |-> [errors |-> [alerts |-> 0, silences |-> 0]]]

\* func WithProxy(proxied bool) Option
WithProxy(proxied, a) == [am |-> [a EXCEPT !.ProxyRequests = proxied], err |-> NoErr]

\* variant: the option forgets the assignment
WithRequestTimeout_NoAssign(timeout, a) == [am |-> a, err |-> NoErr]

\* func WithRequestTimeout(timeout time.Duration) Option
WithRequestTimeout(timeout, a) == [am |-> [a EXCEPT !.RequestTimeout = timeout], err |-> NoErr]

\* func WithHTTPTransport(httpTransport http.RoundTripper) Option
WithHTTPTransport(rt, a) == [am |-> [a EXCEPT !.httpTransport = rt], err |-> NoErr]

\* err := opt(am)
CallOption(opt, a) ==
    CASE opt.kind = "WithProxy" -> WithProxy(opt.proxied, a)
      [] opt.kind = "WithRequestTimeout" -> WithRequestTimeout(opt.timeout, a)
      [] opt.kind = "WithHTTPTransport" -> WithHTTPTransport(opt.rt, a)
      [] OTHER -> [am |-> a, err |-> opt.err]

\* transport.NewTransport(uri, timeout, httpTransport): binds unless the URI is malformed
NewTransport(uri, timeout, rt) ==
    IF uri = MalformedURI
    THEN [transport |-> NilPtr, err |-> ErrTransport]
    ELSE [transport |-> PtrTo([uri |-> uri, timeout |-> timeout, rt |-> rt]), err |-> NoErr]

\* lines 24-39: the struct literal
NewAllocate ==
    /\ npc = "entry"
    /\ am' = NewStruct(nargs.name, nargs.uri)
    /\ idx' = 1
    /\ npc' = "opts"
    /\ UNCHANGED <<nargs, applied, bound, nret>>

\* variant: the error of an option is dropped and the loop goes on
NewApplyOption_IgnoreError ==
    /\ npc = "opts"
    /\ idx <= Len(nargs.opts)
    /\ LET r == CallOption(nargs.opts[idx], am) IN
         /\ applied' = Append(applied, [i |-> idx, err |-> r.err])
         /\ am' = r.am
         /\ idx' = idx + 1
         /\ UNCHANGED <<npc, nret>>
    /\ UNCHANGED <<nargs, bound>>

\* lines 41-46: one iteration of for _, opt := range opts
NewApplyOption ==
    /\ npc = "opts"
    /\ idx <= Len(nargs.opts)
    /\ LET r == CallOption(nargs.opts[idx], am) IN
         /\ applied' = Append(applied, [i |-> idx, err |-> r.err])
         /\ IF r.err # NoErr
            THEN /\ nret' = [am |-> NilPtr, err |-> r.err]
                 /\ npc' = "done"
                 /\ UNCHANGED <<am, idx>>
            ELSE /\ am' = r.am
                 /\ idx' = idx + 1
                 /\ UNCHANGED <<npc, nret>>
    /\ UNCHANGED <<nargs, bound>>

\* variant: a failed bind returns nil like a failed option
NewBindTransport_NilOnError ==
    /\ npc = "opts"
    /\ idx > Len(nargs.opts)
    /\ LET t == NewTransport(am.URI, am.RequestTimeout, am.httpTransport) IN
         /\ bound' = Append(bound, [uri |-> am.URI, timeout |-> am.RequestTimeout,
                                    rt |-> am.httpTransport])
         /\ am' = [am EXCEPT !.transport = t.transport]
         /\ nret' = [am |-> IF t.err # NoErr THEN NilPtr ELSE PtrTo(am'), err |-> t.err]
    /\ npc' = "done"
    /\ UNCHANGED <<nargs, idx, applied>>

\* lines 48-54: bind the transport and return
NewBindTransport ==
    /\ npc = "opts"
    /\ idx > Len(nargs.opts)
    /\ LET t == NewTransport(am.URI, am.RequestTimeout, am.httpTransport) IN
         /\ bound' = Append(bound, [uri |-> am.URI, timeout |-> am.RequestTimeout,
                                    rt |-> am.httpTransport])
         /\ am' = [am EXCEPT !.transport = t.transport]
         /\ nret' = [am |-> PtrTo(am'), err |-> t.err]
    /\ npc' = "done"
    /\ UNCHANGED <<nargs, idx, applied>>

RegistryIdle ==
    /\ heap = [p \in Ptrs |-> [Name |-> "", URI |-> "", ProxyRequests |-> FALSE]]
    /\ upstreams = EmptyMap
    /\ logged = <<>>
    /\ registered = <<>>
    /\ call = NoCall

\* a call NewAlertmanager(name, uri, opts...)
InitNew ==
    /\ nargs \in [name : Names, uri : URIs \cup {MalformedURI}, opts : OptionLists]
    /\ npc = "entry"
    /\ am = NewStruct("", "")
    /\ idx = 0
    /\ applied = <<>>
    /\ bound = <<>>
    /\ nret = [am |-> NilPtr, err |-> NoErr]
    /\ RegistryIdle
    /\ ConcIdle
    /\ UiIdle
    /\ SyncIdle

NextNew ==
    \/ NewAllocate /\ UNCHANGED <<regVars, call, concVars, uiVars, syncVars>>
    \/ NewApplyOption /\ UNCHANGED <<regVars, call, concVars, uiVars, syncVars>>
    \/ NewBindTransport /\ UNCHANGED <<regVars, call, concVars, uiVars, syncVars>>

SpecNew == InitNew /\ [][NextNew]_vars

\* ------------------------------------------ SpecUI: <SilenceMatch /> form
\* StringToOption("foo"), StringToOption("bar")
ValueOptions == {"foo", "bar"}
ValueLists == UNION {[1..n -> ValueOptions] : n \in 0..MaxValues}

\* NewEmptyMatcher(), with the values and isRegex the tests assign before mounting
NewEmptyMatcher == [values |-> <<>>, isRegex |-> FALSE, isEqual |-> TRUE]
NoEvent == [target |-> "none", checked |-> FALSE, pre |-> NewEmptyMatcher]

\* variant: the checkbox writes isRegex whatever the number of values
OnRegexChange_Always(checked) ==
    /\ matcher' = [matcher EXCEPT !.isRegex = checked]
    /\ uiEvent' = [target |-> "isRegex", checked |-> checked, pre |-> matcher]

\* change event on the second checkbox (regex): ignored with more than one value
OnRegexChange(checked) ==
    /\ matcher' = IF Len(matcher.values) > 1
                  THEN matcher
                  ELSE [matcher EXCEPT !.isRegex = checked]
    /\ uiEvent' = [target |-> "isRegex", checked |-> checked, pre |-> matcher]

\* change event on the first checkbox (equal)
OnEqualChange(checked) ==
    /\ matcher' = [matcher EXCEPT !.isEqual = checked]
    /\ uiEvent' = [target |-> "isEqual", checked |-> checked, pre |-> matcher]

InitUI ==
    /\ \E v \in ValueLists, r \in BOOLEAN :
          matcher = [NewEmptyMatcher EXCEPT !.values = v, !.isRegex = r]
    /\ uiEvent = NoEvent
    /\ RegistryIdle
    /\ ConcIdle
    /\ NewIdle
    /\ SyncIdle

NextUI ==
    \/ \E checked \in BOOLEAN : OnRegexChange(checked)
          /\ UNCHANGED <<regVars, call, concVars, newVars, syncVars>>
    \/ \E checked \in BOOLEAN : OnEqualChange(checked)
          /\ UNCHANGED <<regVars, call, concVars, newVars, syncVars>>

SpecUI == InitUI /\ [][NextUI]_vars

\* --------------------------------- SpecSync: one upstream's refresh cycle
\* what a fetch of alert groups and a fetch of silences can deliver
AlertGroupLists == {<<>>, <<"g1">>, <<"g1", "g2">>}
SilenceMaps == {[id \in S |-> "silence"] : S \in SUBSET {"s1", "s2"}}

\* the color map and the autocomplete hints, derived from the alert groups alone
ColorsOf(groups) == {<<groups[i], "color">> : i \in 1..Len(groups)}
AutocompleteOf(groups) == [i \in 1..Len(groups) |-> <<"hint", groups[i]>>]

\* the snapshot of a descriptor as NewAlertmanager leaves it
NewSnapshot ==
    [alertGroups |-> <<>>, silences |-> [id \in {} |-> "silence"], colors |-> {},
     autocomplete |-> <<>>, errors |-> [alerts |-> 0, silences |-> 0]]
NoCycle == [ran |-> FALSE, alertsOK |-> FALSE, silencesOK |-> FALSE,
            groups |-> <<>>, silences |-> [id \in {} |-> "silence"], pre |-> NewSnapshot]

\* step 1: the alert fetch
AfterAlerts(sn, ok, groups) ==
    IF ok
    THEN [sn EXCEPT !.alertGroups = groups, !.colors = ColorsOf(groups),
                    !.autocomplete = AutocompleteOf(groups)]
    ELSE [sn EXCEPT !.errors.alerts = @ + 1]

\* step 2: the silence fetch
AfterSilences(sn, ok, silences) ==
    IF ok
    THEN [sn EXCEPT !.silences = silences]
    ELSE [sn EXCEPT !.errors.silences = @ + 1]

\* variant: a failed alert fetch ends the cycle before the silence fetch
SyncCycle_AbortOnAlertFailure(aok, groups, sok, silences) ==
    /\ aok \/ snap.errors.alerts < MaxErrors
    /\ sok \/ snap.errors.silences < MaxErrors
    /\ snap' = IF aok THEN AfterSilences(AfterAlerts(snap, aok, groups), sok, silences)
                      ELSE AfterAlerts(snap, aok, groups)
    /\ cyc' = [ran |-> TRUE, alertsOK |-> aok, silencesOK |-> sok,
               groups |-> groups, silences |-> silences, pre |-> snap]

\* one synchronization cycle: both fetches, then the snapshot is published
SyncCycle(aok, groups, sok, silences) ==
    /\ aok \/ snap.errors.alerts < MaxErrors
    /\ sok \/ snap.errors.silences < MaxErrors
    /\ snap' = AfterSilences(AfterAlerts(snap, aok, groups), sok, silences)
    /\ cyc' = [ran |-> TRUE, alertsOK |-> aok, silencesOK |-> sok,
               groups |-> groups, silences |-> silences, pre |-> snap]

InitSync ==
    /\ snap = NewSnapshot
    /\ cyc = NoCycle
    /\ RegistryIdle
    /\ ConcIdle
    /\ NewIdle
    /\ UiIdle

NextSync ==
    \E aok, sok \in BOOLEAN, groups \in AlertGroupLists, silences \in SilenceMaps :
        /\ SyncCycle(aok, groups, sok, silences)
        /\ UNCHANGED <<regVars, call, concVars, newVars, uiVars>>

SpecSync == InitSync /\ [][NextSync]_vars

\* ------------------------------------------------------- claims on Spec
Range(s) == {s[i] : i \in 1..Len(s)}
\* the pointers whose registration succeeded and whose Name is name
RegisteredAs(name) == {p \in Range(registered) : heap[p].Name = name}

\* C1: a RegisterAlertmanager call whose descriptor's Name is already a key of
\* the map returns the "already exist" error for that name and leaves the map
\* as it was: same keys, and the key still maps to the earlier pointer.
C1_DuplicateNameRejected ==
    (call.op = "Register" /\ heap[call.am].Name \in DOMAIN call.pre) =>
        /\ call.err = [msg |-> "already exist", name |-> heap[call.am].Name, uri |-> ""]
        /\ DOMAIN upstreams = DOMAIN call.pre
        /\ \A k \in DOMAIN call.pre : upstreams[k] = call.pre[k]

\* a second, different descriptor (other pointer, other URI) was refused for its name
C1_Witness ==
    /\ call.op = "Register"
    /\ heap[call.am].Name \in DOMAIN call.pre
    /\ call.pre[heap[call.am].Name] # call.am
    /\ heap[call.pre[heap[call.am].Name]].URI # heap[call.am].URI
    /\ call.err.msg = "already exist"

\* C2: a RegisterAlertmanager call whose Name is not a key but whose URI is the
\* URI of a registered entry e returns the "already collects from" error
\* carrying e's Name, and leaves the map as it was.
C2_DuplicateSourceRejected ==
    (/\ call.op = "Register"
     /\ heap[call.am].Name \notin DOMAIN call.pre
     /\ \E k \in DOMAIN call.pre : heap[call.pre[k]].URI = heap[call.am].URI) =>
        /\ call.err.msg = "already collects from"
        /\ \E k \in DOMAIN call.pre :
              /\ heap[call.pre[k]].URI = heap[call.am].URI
              /\ call.err.name = heap[call.pre[k]].Name
              /\ call.err.name # heap[call.am].Name
        /\ upstreams = call.pre
        /\ call.am \notin {upstreams[k] : k \in DOMAIN upstreams}

C2_Witness ==
    /\ call.op = "Register"
    /\ heap[call.am].Name \notin DOMAIN call.pre
    /\ \E k \in DOMAIN call.pre : heap[call.pre[k]].URI = heap[call.am].URI
    /\ call.err.msg = "already collects from"

\* C3: in every state reached by whole registry calls, two different
\* registered pointers never share a Name and never share a URI.
C3_UniqueNameAndURI ==
    \A k1, k2 \in DOMAIN upstreams :
        k1 # k2 =>
            /\ upstreams[k1] # upstreams[k2]
            /\ heap[upstreams[k1]].Name # heap[upstreams[k2]].Name
            /\ heap[upstreams[k1]].URI # heap[upstreams[k2]].URI

\* two entries are registered and a registration with a taken URI was just refused
C3_Witness ==
    /\ Cardinality(DOMAIN upstreams) = 2
    /\ call.op = "Register"
    /\ call.err.msg = "already collects from"

\* C4: GetAlertmanagers returns as many pointers as registrations succeeded,
\* and exactly those pointers (so the same Names and URIs), whatever the order
\* of the registrations and of the returned slice.
C4_ListAllReturnsRegistered ==
    call.op = "GetAlertmanagers" =>
        /\ Len(call.ams) = Len(registered)
        /\ Range(call.ams) = Range(registered)
        /\ {<<heap[p].Name, heap[p].URI>> : p \in Range(call.ams) \ {NIL}}
             = {<<heap[p].Name, heap[p].URI>> : p \in Range(registered)}

\* two registrations succeeded and the slice lists them in the other order
C4_Witness ==
    /\ call.op = "GetAlertmanagers"
    /\ Len(registered) = 2
    /\ Len(call.ams) = 2
    /\ call.ams[1] = registered[2]

\* C5 as stated: a lookup of a name that is not registered never yields the
\* null pointer.
C5_NeverNull ==
    call.op = "GetAlertmanagerByName" =>
        IF RegisteredAs(call.name) # {}
        THEN call.out \in RegisteredAs(call.name)
        ELSE call.out # NIL

\* C5 amended: GetAlertmanagerByName returns the pointer registered under the
\* name when one is registered, and nil exactly when none is; it leaves the
\* map unchanged.
C5_ByNameOrNil ==
    call.op = "GetAlertmanagerByName" =>
        /\ IF RegisteredAs(call.name) # {}
           THEN call.out \in RegisteredAs(call.name) /\ call.out # NIL
           ELSE call.out = NIL
        /\ upstreams = call.pre

\* one name is registered, and a lookup of the other one has returned nil
C5_Witness ==
    /\ call.op = "GetAlertmanagerByName"
    /\ Len(registered) = 1
    /\ RegisteredAs(call.name) = {}
    /\ call.out = NIL

\* ---------------------------------------------------- claims on SpecNew
Max(S) == CHOOSE x \in S : \A y \in S : y <= x
TimeoutOptions == {i \in 1..Len(nargs.opts) : nargs.opts[i].kind = "WithRequestTimeout"}
TransportOptions == {i \in 1..Len(nargs.opts) : nargs.opts[i].kind = "WithHTTPTransport"}
\* the value of the last timeout option, 10 seconds when there is none
LastTimeout == IF TimeoutOptions = {} THEN 10 ELSE nargs.opts[Max(TimeoutOptions)].timeout
LastTransport == IF TransportOptions = {} THEN "nil" ELSE nargs.opts[Max(TransportOptions)].rt

\* C8: when the option list holds a WithRequestTimeout with a zero or negative
\* duration, the finished call has returned an error and no descriptor.
C8_NonPositiveTimeoutFails ==
    (/\ npc = "done"
     /\ \E i \in TimeoutOptions : nargs.opts[i].timeout <= 0) =>
        /\ nret.err # NoErr
        /\ nret.am = <<>>

\* C9: once an option has returned an error, the call is over: that option is
\* the last one called, the call has returned nil and that error, and
\* transport.NewTransport was not called.
C9_OptionErrorAborts ==
    \A j \in 1..Len(applied) :
        applied[j].err # NoErr =>
            /\ j = Len(applied)
            /\ npc = "done"
            /\ nret = [am |-> <<>>, err |-> applied[j].err]
            /\ bound = <<>>

\* the second of three options failed: the third was never called
C9_Witness ==
    /\ npc = "done"
    /\ Len(nargs.opts) = 3
    /\ Len(applied) = 2
    /\ applied[2].err # NoErr
    /\ nret.am = <<>>

\* C10: the options are called in the order given, transport.NewTransport is
\* called at most once and only after all of them, and a call that returns a
\* descriptor has RequestTimeout equal to the last timeout option (10 seconds
\* without one) and has bound the transport exactly once, with the URI, that
\* timeout and the last transport override.
C10_OptionsInOrderThenBind ==
    /\ \A j \in 1..Len(applied) : applied[j].i = j
    /\ Len(bound) <= 1
    /\ bound # <<>> => Len(applied) = Len(nargs.opts)
    /\ (npc = "done" /\ nret.am # <<>>) =>
          /\ nret.am[1].RequestTimeout = LastTimeout
          /\ Len(bound) = 1
          /\ bound[1] = [uri |-> nargs.uri, timeout |-> LastTimeout, rt |-> LastTransport]

\* two timeout options with different values and a transport override, bound
C10_Witness ==
    /\ npc = "done"
    /\ nret.err = NoErr
    /\ Cardinality(TimeoutOptions) = 2
    /\ \E i, j \in TimeoutOptions : nargs.opts[i].timeout # nargs.opts[j].timeout
    /\ TransportOptions # {}
    /\ nret.am[1].transport = <<[uri |-> nargs.uri, timeout |-> LastTimeout, rt |-> LastTransport]>>

\* no timeout option: the default of 10 seconds is bound
C10_WitnessDefault ==
    /\ npc = "done"
    /\ nret.err = NoErr
    /\ TimeoutOptions = {}
    /\ bound[1].timeout = 10

\* --------------------------------------------------- claims on SpecConc
\* C6: with RegisterAlertmanager calls interleaving, two different registered
\* pointers never share a Name or a URI, and every call that returned nil has
\* its descriptor in the map.
C6_ConcurrentRegisterKeepsRegistry ==
    /\ \A k1, k2 \in DOMAIN upstreams :
          k1 # k2 =>
             /\ heap[upstreams[k1]].Name # heap[upstreams[k2]].Name
             /\ heap[upstreams[k1]].URI # heap[upstreams[k2]].URI
    /\ \A p \in Procs :
          (pc[p] = "done" /\ local[p].op = "Register" /\ local[p].err = NoErr) =>
              local[p].am \in {upstreams[k] : k \in DOMAIN upstreams}

\* C7: no lookup reads or iterates the map while an insert into it is in
\* progress: no goroutine is inside the range loop of GetAlertmanagers while
\* another is inside the map write, and no lookup has made a map access that
\* overlapped a write.
C7_LookupsNeverOverlapInsert ==
    \A r \in Procs :
        local[r].op \in {"GetAlertmanagers", "GetAlertmanagerByName"} =>
            /\ ~local[r].raced
            /\ ~(pc[r] = "range" /\ Racing(r))

\* ------------------------------------------- further claims on SpecNew
ProxyOptions == {i \in 1..Len(nargs.opts) : nargs.opts[i].kind = "WithProxy"}
LastProxy == IF ProxyOptions = {} THEN FALSE ELSE nargs.opts[Max(ProxyOptions)].proxied

\* C11: a call whose options all succeeded and whose transport bind failed
\* returns the bind error together with a non-nil descriptor that carries the
\* name, the URI and the options as applied; a call ended by an option error
\* returns no descriptor.
C11_BindFailureReturnsDescriptor ==
    npc = "done" =>
        /\ (bound # <<>> /\ nargs.uri = "%zz") =>
              /\ nret.err # NoErr
              /\ nret.am # <<>>
              /\ nret.am[1].Name = nargs.name
              /\ nret.am[1].URI = nargs.uri
              /\ nret.am[1].RequestTimeout = LastTimeout
              /\ nret.am[1].httpTransport = LastTransport
              /\ nret.am[1].ProxyRequests = LastProxy
              /\ nret.am[1].transport = <<>>
        /\ bound = <<>> => (nret.err # NoErr /\ nret.am = <<>>)

\* three options were applied, then the bind of the malformed URI failed
C11_Witness ==
    /\ npc = "done"
    /\ nargs.uri = "%zz"
    /\ Len(applied) = 3
    /\ ProxyOptions # {} /\ LastProxy
    /\ TimeoutOptions # {}
    /\ bound # <<>>
    /\ nret.err # NoErr
    /\ nret.am # <<>>

\* C12: from the struct literal on, through every option and in the returned
\* descriptor, the alert groups, silences, colors and autocomplete are empty
\* and both error counters are present and zero.
C12_InitialSnapshotEmpty ==
    LET Fresh(a) ==
            /\ a.alertGroups = <<>>
            /\ a.silences = <<>>
            /\ a.colors = <<>>
            /\ a.autocomplete = <<>>
            /\ DOMAIN a.metrics.errors = {"alerts", "silences"}
            /\ a.metrics.errors.alerts = 0
            /\ a.metrics.errors.silences = 0
    IN  /\ npc \in {"opts", "done"} => Fresh(am)
        /\ (npc = "done" /\ nret.am # <<>>) => Fresh(nret.am[1])

\* a successful call with one option of each kind
C12_Witness ==
    /\ npc = "done"
    /\ nret.err = NoErr
    /\ nret.am # <<>>
    /\ ProxyOptions # {} /\ TimeoutOptions # {} /\ TransportOptions # {}

\* ---------------------------------------------- further claims on Spec
\* C13: every pointer whose registration succeeded is still the entry under
\* its Name, with the Name and URI it was registered with; a later
\* GetAlertmanagerByName of that Name returns it and a later GetAlertmanagers
\* lists it.
C13_RegistrationPermanent ==
    \A i \in 1..Len(registered) :
        LET p == registered[i] IN
            /\ heap[p].Name \in DOMAIN upstreams
            /\ upstreams[heap[p].Name] = p
            /\ heap[p].Name = logged[i].name
            /\ heap[p].URI = logged[i].uri
            /\ (call.op = "GetAlertmanagerByName" /\ call.name = heap[p].Name) => call.out = p
            /\ call.op = "GetAlertmanagers" => p \in Range(call.ams)

\* after two registrations and a refused third call, the first entry is looked up
C13_Witness ==
    /\ Len(registered) = 2
    /\ call.op = "GetAlertmanagerByName"
    /\ call.name = heap[registered[1]].Name
    /\ call.out = registered[1]

\* C15: the log holds one line per successful registration, in order, with the
\* Name, URI and ProxyRequests of the registered descriptor, whose entry is in
\* the map; a refused registration leaves one line per entry, as before it.
C15_OneEventPerRegistration ==
    /\ Len(logged) = Len(registered)
    /\ \A i \in 1..Len(logged) :
          /\ logged[i] = [name |-> heap[registered[i]].Name, uri |-> heap[registered[i]].URI,
                          proxied |-> heap[registered[i]].ProxyRequests]
          /\ logged[i].name \in DOMAIN upstreams
          /\ upstreams[logged[i].name] = registered[i]
    /\ (call.op = "Register" /\ call.err # NoErr) =>
          Len(logged) = Cardinality(DOMAIN call.pre)
    /\ (call.op = "Register" /\ call.err = NoErr) =>
          Len(logged) = Cardinality(DOMAIN call.pre) + 1

\* a proxied descriptor was registered and logged, then a registration was refused
C15_Witness ==
    /\ Len(logged) = 1
    /\ logged[1].proxied
    /\ call.op = "Register"
    /\ call.err # NoErr

\* C18: a descriptor that collides with the map on its Name gets the
\* "already exist" error even when its URI collides too (the same pointer
\* registered again included); "already collects from" is returned only when
\* the Name is not a key.
C18_NameCheckFirst ==
    call.op = "Register" =>
        /\ (/\ heap[call.am].Name \in DOMAIN call.pre
            /\ \E k \in DOMAIN call.pre : heap[call.pre[k]].URI = heap[call.am].URI) =>
               call.err.msg = "already exist"
        /\ call.err.msg = "already collects from" => heap[call.am].Name \notin DOMAIN call.pre

\* the very same pointer was registered a second time
C18_Witness ==
    /\ call.op = "Register"
    /\ call.am \in {call.pre[k] : k \in DOMAIN call.pre}
    /\ call.err.msg = "already exist"

\* --------------------------------------------------- claims on SpecRead
\* C14: whatever a reader does with the values the lookups returned, every
\* registered descriptor keeps the Name and URI it was registered with and is
\* still the entry under that Name, and a lookup leaves the map as it was.
C14_ReadersCannotChangeRegistry ==
    /\ \A i \in 1..Len(registered) :
          /\ heap[registered[i]].Name = logged[i].name
          /\ heap[registered[i]].URI = logged[i].uri
          /\ logged[i].name \in DOMAIN upstreams
          /\ upstreams[logged[i].name] = registered[i]
    /\ call.op \in {"GetAlertmanagers", "GetAlertmanagerByName"} => upstreams = call.pre

\* ----------------------------------------------------- claims on SpecUI
\* C16: after a change event on the regex checkbox, isRegex is the checked
\* value when the matcher held one value, and is what it was when the matcher
\* held two or more; nothing else of the matcher changes.
C16_RegexToggleOnlyWithOneValue ==
    uiEvent.target = "isRegex" =>
        /\ Len(uiEvent.pre.values) = 1 => matcher.isRegex = uiEvent.checked
        /\ Len(uiEvent.pre.values) >= 2 => matcher.isRegex = uiEvent.pre.isRegex
        /\ matcher.values = uiEvent.pre.values
        /\ matcher.isEqual = uiEvent.pre.isEqual

\* both tests: one value and the box set to true; two values, isRegex true and
\* the box set to false
C16_Witness ==
    /\ uiEvent.target = "isRegex"
    /\ Len(uiEvent.pre.values) = 2
    /\ uiEvent.pre.isRegex
    /\ ~uiEvent.checked
    /\ matcher.isRegex

C16_WitnessOneValue ==
    /\ uiEvent.target = "isRegex"
    /\ Len(uiEvent.pre.values) = 1
    /\ ~uiEvent.pre.isRegex
    /\ uiEvent.checked
    /\ matcher.isRegex

====
